---- MODULE Spec2Model ----
(***************************************************************************)
(* Model of the Redis backend of pytheus-backend-rs (src/src/lib.rs):      *)
(* backend handles and snapshot passes send RedisJob values over one mpsc  *)
(* channel to a single worker thread that owns the Redis connection.       *)
(*                                                                         *)
(* Conventions.  An Option<T> is a sequence of length 0 (None) or 1        *)
(* (Some).  f64 values are modelled by integers, a subset of f64 on which  *)
(* addition and negation are exact.  The Redis keyspace is a function      *)
(* whose domain is the set of existing cells <<key, field>>; the field of  *)
(* a plain string key is None.  A call of inc/dec/set and the first half   *)
(* of _generate_samples run to their mpsc send in one step: before the     *)
(* send they touch nothing but their own locals.  One iteration of the     *)
(* worker's loop is one step: only the worker talks to Redis, so nothing   *)
(* can observe the store between the commands of one iteration; what a     *)
(* failure between them leaves behind is one of the step's outcomes.       *)
(***************************************************************************)
EXTENDS Integers, Sequences, FiniteSets, TLC

\* ---------------------------------------------------------------- bounds
MaxCalls == 3          \* inc/dec/set calls in one behaviour
MaxPasses == 2         \* _generate_samples calls in one behaviour
MaxJobs == 3           \* calls of both kinds in one behaviour
MaxInits == 2          \* _initialize calls in one behaviour
MaxNew == 2            \* handles constructed in one behaviour of SpecNew

\* ------------------------------------------------------------- constants
EXPIRE_KEY_SECONDS == 3600

None == <<>>
Some(x) == <<x>>

\* Threads that call _generate_samples.  inc, dec and set hold the GIL from
\* entry to return and leave no trace of the calling thread: their calls,
\* from any number of threads, are steps in some order.
Threads == {"t1", "t2"}
Values == {2}

\* RedisBackend { key_name, labels_hash }: the handles of the model.  "k1" is
\* an unlabeled metric (a string key), "k2" a labeled one (a hash with one
\* field per labels_hash).
Handle(k, lh) == [key_name |-> k, labels_hash |-> lh]
Handles == {Handle("k1", None), Handle("k2", Some("a")), Handle("k2", Some("b"))}

Cell(h) == <<h.key_name, h.labels_hash>>
Cells == {Cell(h) : h \in Handles}
Keys == {h.key_name : h \in Handles}

\* ------------------------------------------------ RedisBackend::new
\* A metric as `new` reads it: the collector's name, the metric's _labels
\* and the collector's _default_labels (dicts: functions from label names to
\* label values, empty when there are none; _default_labels_count is the
\* number of default labels) and the histogram_bucket argument.
Metric(name, labels, default_labels, bucket) ==
    [name |-> name, labels |-> labels, default_labels |-> default_labels,
     histogram_bucket |-> bucket]

\* The bytes of the label values of the model: Ord for str compares bytes.
Bytes(s) ==
    CASE s = "a" -> <<97>>
      [] s = "ab" -> <<97, 98>>
      [] s = "b" -> <<98>>

RECURSIVE LexLeq(_, _)
LexLeq(a, b) ==
    IF a = <<>> THEN TRUE
    ELSE IF b = <<>> THEN FALSE
    ELSE IF Head(a) # Head(b) THEN Head(a) < Head(b)
    ELSE LexLeq(Tail(a), Tail(b))

StrLeq(s, t) == LexLeq(Bytes(s), Bytes(t))

\* format!("{key_name}:{bucket_id}") when a histogram bucket is given.
KeyName(metric) ==
    IF metric.histogram_bucket = None THEN metric.name
    ELSE metric.name \o ":" \o metric.histogram_bucket[1]

\* An Option<HashMap>: Some when the Python dict is true (not empty).
Labels(dict) == IF DOMAIN dict = {} THEN None ELSE Some(dict)

\* default_labels.extend(&metric_labels): the entries of metric_labels are
\* inserted, replacing the value of a name already there.
Extend(default_labels, metric_labels) ==
    [n \in DOMAIN default_labels \cup DOMAIN metric_labels |->
        IF n \in DOMAIN metric_labels THEN metric_labels[n] ELSE default_labels[n]]

\* to_hash: the default labels extended by the metric's, or whichever exists.
ToHash(default_labels, metric_labels) ==
    IF default_labels # None
    THEN IF metric_labels # None
         THEN Some(Extend(default_labels[1], metric_labels[1]))
         ELSE default_labels
    ELSE metric_labels

\* The orders in which a HashMap may yield its entries: any.
Orders(S) ==
    {f \in [1..Cardinality(S) -> S] : \A i, j \in 1..Cardinality(S) : i # j => f[i] # f[j]}

\* labels.values(): the values in the map's iteration order.
MapValues(labels, order) == [i \in 1..Len(order) |-> labels[order[i]]]

\* .sorted(): the values in ascending order of str.
RECURSIVE Insert(_, _)
Insert(sorted, s) ==
    IF sorted = <<>> THEN <<s>>
    ELSE IF StrLeq(s, Head(sorted)) THEN <<s>> \o sorted
    ELSE <<Head(sorted)>> \o Insert(Tail(sorted), s)

SortedAsIs(values) == values
RECURSIVE Sorted(_)
Sorted(values) ==
    IF values = <<>> THEN <<>>
    ELSE Insert(Sorted(SubSeq(values, 1, Len(values) - 1)), values[Len(values)])

\* .join("-")
RECURSIVE Join(_, _)
Join(strs, sep) ==
    IF strs = <<>> THEN ""
    ELSE IF Len(strs) = 1 THEN strs[1]
    ELSE strs[1] \o sep \o Join(Tail(strs), sep)

\* to_hash.map(|labels| labels.values().sorted().join("-"))
LabelsHash(to_hash, order) ==
    IF to_hash = None THEN None
    ELSE Some(Join(Sorted(MapValues(to_hash[1], order)), "-"))

\* The key_name and labels_hash `new` gives the handle of a metric, for one
\* iteration order of the merged map.
NewHandle(metric, order) ==
    Handle(KeyName(metric),
           LabelsHash(ToHash(Labels(metric.default_labels), Labels(metric.labels)), order))

MergedNames(metric) == DOMAIN metric.default_labels \cup DOMAIN metric.labels

NoLabels == [n \in {} |-> ""]
Label(n, v) == [x \in {n} |-> v]

\* The metrics behind the handles of the model.
HandleMetrics ==
    { Metric("k1", NoLabels, NoLabels, None),
      Metric("k2", Label("m", "a"), NoLabels, None),
      Metric("k2", Label("m", "b"), NoLabels, None) }

\* The registries a snapshot pass may be given: registry.collect() yields
\* collectors, collector.collect() yields samples, each owning a handle.
\* What Redis may hold at start: values of an earlier run, one per cell.
InitialValue(c) == IF c[1] = "k1" THEN 5 ELSE IF c[2] = <<"a">> THEN 6 ELSE 7
InitialStores ==
    {[c \in S |-> InitialValue(c)] : S \in {{}, {<<"k1", <<>>>>, <<"k2", <<"b">>>>}}}

Registries ==
    { <<>>,
      << <<Handle("k2", Some("b")), Handle("k1", None)>>,
         <<>>,
         <<Handle("k2", Some("a")), Handle("k2", Some("a"))>> >> }

VARIABLES
    queue,      \* the mpsc channel of RedisJob behind REDIS_JOB_TX
    worker,     \* the worker thread: "running" or "dead" (panicked)
    store,      \* Redis: existing cells -> value
    ttl,        \* Redis: keys with an expiry -> seconds to live
    tpc,        \* each caller thread's position
    pass,       \* each thread's snapshot pass: registry, outcome, samples
    chan,       \* each thread's result channel (tx, rx) of its pass
    nCalls,     \* inc/dec/set calls made
    nPasses,    \* _generate_samples calls made
    nEnq,       \* history: jobs sent so far (a job's seq is its rank)
    recvd,      \* history: seqs of the jobs the worker received, in order
    lost,       \* history: seqs of mutation jobs discarded unapplied
    orphaned,   \* history: threads whose Get job the worker's panic dropped
    raised,     \* history: an inc/dec/set call panicked
    store0,     \* history: the store at start
    expect,     \* history: store0 with every sent mutation applied in order
    sumDelta,   \* history: per cell, the sum of the deltas of inc/dec calls
    hasSet,     \* history: cells a set call was sent for
    touched,    \* history: keys of the mutation jobs the worker finished
    atSend,     \* history: per thread, `expect` when its Get job was sent
    execStore,  \* history: per thread, the store when its pipeline ran
    jobTx,      \* REDIS_JOB_TX: None, or Some(the channel its sender feeds)
    handles,    \* the RedisBackend handles constructed, each with its sender
    spare,      \* the channels and workers of later _initialize calls
    conns,      \* Redis connections opened so far
    nInits,     \* _initialize calls made
    lastInit    \* the last _initialize call: its config and its result

vars == <<queue, worker, store, ttl, tpc, pass, chan, nCalls,
          nPasses, nEnq, recvd, lost, orphaned, raised, store0, expect,
          sumDelta, hasSet, touched, atSend, execStore,
          jobTx, handles, spare, conns, nInits, lastInit>>

\* What only _initialize and new change.
lifeVars == <<jobTx, handles, spare, conns, nInits, lastInit>>

\* ------------------------------------------------------------ the store

KeyExists(st, k) == \E c \in DOMAIN st : c[1] = k

\* The value of a cell as a number; a missing key or field counts as 0.
Val(st, c) == IF c \in DOMAIN st THEN st[c] ELSE 0

PutKey(st, c, v) == [x \in DOMAIN st \cup {c} |-> IF x[1] = c[1] THEN v ELSE st[x]]
Put(st, c, v) == [x \in DOMAIN st \cup {c} |-> IF x = c THEN v ELSE st[x]]

\* connection.incr / connection.hincr with an f64: INCRBYFLOAT / HINCRBYFLOAT.
IncrLost(st, job) == Put(st, <<job.key_name, job.labels_hash>>, job.value)
Incr(st, job) ==
    LET c == <<job.key_name, job.labels_hash>> IN Put(st, c, Val(st, c) + job.value)

\* connection.set / connection.hset: SET replaces the key, HSET one field.
SetCell(st, job) ==
    LET c == <<job.key_name, job.labels_hash>> IN
    IF job.labels_hash = None
    THEN Put([x \in {y \in DOMAIN st : y[1] # job.key_name} |-> st[x]], c, job.value)
    ELSE Put(st, c, job.value)

\* SET discards the key's time to live; the other writes keep it.
ClearTtl(tl, k) == [x \in DOMAIN tl \ {k} |-> tl[x]]

\* connection.expire(key, EXPIRE_KEY_SECONDS): no effect on a missing key.
ExpireNever(st, tl, k) == tl
Expire(st, tl, k) ==
    IF KeyExists(st, k)
    THEN [x \in DOMAIN tl \cup {k} |-> IF x = k THEN EXPIRE_KEY_SECONDS ELSE tl[x]]
    ELSE tl

SetTtl(tl, job) == IF job.labels_hash = None THEN ClearTtl(tl, job.key_name) ELSE tl

\* The worker's match on received.action: Inc and Dec share one arm.
Arm(job) ==
    CASE job.action \in {"Inc", "Dec"} -> "incdec"
      [] job.action = "Set" -> "set"
      [] OTHER -> "get"

\* What a mutation arm leaves in Redis when both its commands succeed.
Applied(st, tl, job) ==
    IF Arm(job) = "incdec"
    THEN [store |-> Incr(st, job), ttl |-> Expire(Incr(st, job), tl, job.key_name)]
    ELSE [store |-> SetCell(st, job),
          ttl |-> Expire(SetCell(st, job), SetTtl(tl, job), job.key_name)]

EmptyFn == [x \in {} |-> 0]

\* ------------------------------------------------------------- the jobs

\* RedisJob as inc, dec, set and _generate_samples build it.  The Get job's
\* value is f64::NAN in the code and is never read; it is 0 here.
IncJob(h, v) ==
    [action |-> "Inc", key_name |-> h.key_name, labels_hash |-> h.labels_hash,
     value |-> v, result_tx |-> None, pipeline |-> None]
DecJobPlain(h, v) ==
    [action |-> "Dec", key_name |-> h.key_name, labels_hash |-> h.labels_hash,
     value |-> v, result_tx |-> None, pipeline |-> None]
DecJob(h, v) ==
    [action |-> "Dec", key_name |-> h.key_name, labels_hash |-> h.labels_hash,
     value |-> 0 - v, result_tx |-> None, pipeline |-> None]
SetJob(h, v) ==
    [action |-> "Set", key_name |-> h.key_name, labels_hash |-> h.labels_hash,
     value |-> v, result_tx |-> None, pipeline |-> None]
GetJob(pipe, t) ==
    [action |-> "Get", key_name |-> "", labels_hash |-> None,
     value |-> 0, result_tx |-> Some(t), pipeline |-> Some(pipe)]

IsMutation(job) == job.action \in {"Inc", "Dec", "Set"}

\* mpsc::Sender::send: the job goes to the back of the channel.  A queue entry
\* pairs the job with its rank among all jobs sent (history).
EnqueueFront(q, job, n) == <<[job |-> job, seq |-> n]>> \o q
Enqueue(q, job, n) == Append(q, [job |-> job, seq |-> n])

\* mpsc::channel() is unbounded: a send never waits for room or for the
\* receiver, whatever the channel holds.
CanSendRendezvous(q) == q = <<>>
CanSend(q) == TRUE

\* rx.recv(): the worker takes the job at the front.
RecvIndexLast(q) == Len(q)
RecvIndex(q) == 1

Without(q, i) == SubSeq(q, 1, i - 1) \o SubSeq(q, i + 1, Len(q))

\* ---------------------------------------------------------- the pipeline

\* One sample's commands: pipe.hget / pipe.get, then pipe.expire(..).ignore().
PipeSampleNoIgnore(h) ==
    << [cmd |-> IF h.labels_hash = None THEN "GET" ELSE "HGET",
        key |-> h.key_name, field |-> h.labels_hash, ignore |-> FALSE],
       [cmd |-> "EXPIRE", key |-> h.key_name, field |-> None, ignore |-> FALSE] >>
PipeSample(h) ==
    << [cmd |-> IF h.labels_hash = None THEN "GET" ELSE "HGET",
        key |-> h.key_name, field |-> h.labels_hash, ignore |-> FALSE],
       [cmd |-> "EXPIRE", key |-> h.key_name, field |-> None, ignore |-> TRUE] >>

RECURSIVE PipeSamples(_)
PipeSamples(samples) ==
    IF samples = <<>> THEN <<>>
    ELSE PipeSample(Head(samples)) \o PipeSamples(Tail(samples))

\* The loops over the collectors and their samples.
BuildPipeLast(registry) ==
    IF registry = <<>> THEN <<>> ELSE PipeSamples(registry[Len(registry)])
RECURSIVE BuildPipe(_)
BuildPipe(registry) ==
    IF registry = <<>> THEN <<>>
    ELSE PipeSamples(Head(registry)) \o BuildPipe(Tail(registry))

\* samples_vec: one OutSample with value 0.0 per sample (the value is what
\* the model keeps of an OutSample; its place tells which sample it is).
Placeholders(registry) ==
    [i \in 1..Len(registry) |-> [j \in 1..Len(registry[i]) |-> 0]]

\* pipe.query: Redis runs the commands in order; the reply of a command
\* marked ignore is dropped.  A reply is an Option<f64>; EXPIRE answers 1 or 0.
\* No command of a pipeline changes a value, so every command sees the store
\* the pipeline started with; the time to live is threaded through them.
RECURSIVE PipeReplies(_, _)
PipeReplies(cmds, st) ==
    IF cmds = <<>> THEN <<>>
    ELSE LET c == Head(cmds)
             cell == <<c.key, c.field>>
         IN  (IF c.ignore THEN <<>>
              ELSE IF c.cmd = "EXPIRE"
                   THEN <<Some(IF KeyExists(st, c.key) THEN 1 ELSE 0)>>
                   ELSE IF cell \in DOMAIN st THEN <<Some(st[cell])>> ELSE <<None>>)
             \o PipeReplies(Tail(cmds), st)

PipeTtlAnyKey(cmds, st, tl) ==
    LET named == {cmds[n].key : n \in {m \in 1..Len(cmds) : cmds[m].cmd = "EXPIRE"}}
    IN  [k \in DOMAIN tl \cup named |->
            IF k \in named THEN EXPIRE_KEY_SECONDS ELSE tl[k]]
RECURSIVE PipeTtl(_, _, _)
PipeTtl(cmds, st, tl) ==
    IF cmds = <<>> THEN tl
    ELSE IF Head(cmds).cmd = "EXPIRE"
         THEN PipeTtl(Tail(cmds), st, Expire(st, tl, Head(cmds).key))
         ELSE PipeTtl(Tail(cmds), st, tl)

ExecPipe(cmds, st, tl) ==
    [replies |-> PipeReplies(cmds, st), ttl |-> PipeTtl(cmds, st, tl)]

\* results.into_iter().map(|val| val.unwrap_or(0f64)).collect()
RECURSIVE UnwrapSkipNone(_)
UnwrapSkipNone(replies) ==
    IF replies = <<>> THEN <<>>
    ELSE (IF Head(replies) = None THEN <<>> ELSE <<Head(replies)[1]>>)
         \o UnwrapSkipNone(Tail(replies))
UnwrapOr0(replies) ==
    [n \in 1..Len(replies) |-> IF replies[n] = None THEN 0 ELSE replies[n][1]]

\* The place of sample j of collector i in samples_vec_united.
RECURSIVE Before(_, _)
Before(samples_vec, i) ==
    IF i = 1 THEN 0 ELSE Before(samples_vec, i - 1) + Len(samples_vec[i - 1])
Flat(samples_vec, i, j) == Before(samples_vec, i) + j
Total(samples_vec) == Before(samples_vec, Len(samples_vec) + 1)

\* samples_vec_united.iter_mut().zip(job_result.values): the zip stops at the
\* shorter of the two.
Distribute(samples_vec, values) ==
    [i \in 1..Len(samples_vec) |->
        [j \in 1..Len(samples_vec[i]) |->
            IF Flat(samples_vec, i, j) <= Len(values)
            THEN values[Flat(samples_vec, i, j)]
            ELSE samples_vec[i][j]]]

\* -------------------------------------------------------- the channels

\* Dropping jobs drops the result_tx each Get job holds: the result channel
\* of its pass is left without a sender.
DropJobsLeak(ch, entries) == ch
DropJobs(ch, entries) ==
    [t \in Threads |->
        IF \E n \in 1..Len(entries) : entries[n].job.result_tx = Some(t)
        THEN [ch[t] EXCEPT !.tx = FALSE]
        ELSE ch[t]]

\* received.result_tx.unwrap(): the channel a Get job's result goes to.
OtherThread(t) == CHOOSE u \in Threads : u # t
ResultTxOther(job) == OtherThread(job.result_tx[1])
ResultTx(job) == job.result_tx[1]

\* result_tx.send(RedisJobResult { values }): the vector is put on the pass's
\* channel; the sender goes with the job at the end of the iteration.
DeliverNothing(ch, t, values) == ch
Deliver(ch, t, values) ==
    [ch EXCEPT ![t] = [msgs |-> Append(@.msgs, [values |-> values]), tx |-> FALSE]]

Entries(entries) == {entries[n] : n \in 1..Len(entries)}
ResultThreads(entries) ==
    {t \in Threads : \E n \in 1..Len(entries) : entries[n].job.result_tx = Some(t)}
MutationSeqs(entries) ==
    {entries[n].seq : n \in {m \in 1..Len(entries) : IsMutation(entries[m].job)}}

Alive == worker # "dead"

\* ------------------------------------------------------------------ Init

NoPass == [registry |-> <<>>, status |-> "none", samples_vec |-> <<>>]
\* A pass that panicked: its locals are gone and nothing is returned.
FailedPass == [registry |-> <<>>, status |-> "error", samples_vec |-> <<>>]
NoChan == [msgs |-> <<>>, tx |-> FALSE]

\* The config of _initialize: host and port, either of which may be missing;
\* the hosts are one that accepts the connection and one that does not.
Config(host, port) == [host |-> host, port |-> port]
Configs ==
    { Config(None, Some(6379)), Config(Some("up"), None),
      Config(Some("down"), Some(6379)), Config(Some("up"), Some(6379)) }

NoInit == [config |-> None, result |-> "none"]

\* One successful _initialize, then `new` for each metric of the model: the
\* sender is set, channel 1 and its worker exist, every handle holds a clone.
Initialized ==
    /\ jobTx = Some(1)
    /\ handles = UNION {{[metric |-> m, h |-> NewHandle(m, order), tx |-> 1] :
                               order \in Orders(MergedNames(m))} : m \in HandleMetrics}
    /\ spare = <<>>
    /\ conns = 1
    /\ nInits = 1
    /\ lastInit = [config |-> Some(Config(Some("up"), Some(6379))), result |-> "ok"]

\* After _initialize: the worker waits in rx.recv(), no job was sent.  Redis
\* may hold values of earlier runs for any of the cells, without expiry.
Init ==
    /\ Initialized
    /\ store \in InitialStores
    /\ store0 = store
    /\ expect = store
    /\ ttl = EmptyFn
    /\ queue = <<>>
    /\ worker = "running"
    /\ tpc = [t \in Threads |-> "idle"]
    /\ pass = [t \in Threads |-> NoPass]
    /\ chan = [t \in Threads |-> NoChan]
    /\ nCalls = 0
    /\ nPasses = 0
    /\ nEnq = 0
    /\ recvd = <<>>
    /\ lost = {}
    /\ orphaned = {}
    /\ raised = FALSE
    /\ sumDelta = [c \in Cells |-> 0]
    /\ hasSet = {}
    /\ touched = {}
    /\ atSend = [t \in Threads |-> EmptyFn]
    /\ execStore = [t \in Threads |-> EmptyFn]

\* ------------------------------------------------------ inc / dec / set

\* The handles a caller can hold: those `new` has returned.
Constructed == {r.h : r \in handles}

\* self.redis_job_tx.send(job).unwrap(): the send fails, and the call panics,
\* only when the worker's receiver is gone.
SendMutation(job) ==
    /\ nCalls < MaxCalls
    /\ nCalls + nPasses < MaxJobs
    /\ nCalls' = nCalls + 1
    /\ Alive => CanSend(queue)
    /\ IF Alive
       THEN /\ queue' = Enqueue(queue, job, nEnq + 1)
            /\ nEnq' = nEnq + 1
            /\ UNCHANGED raised
       ELSE /\ raised' = TRUE
            /\ UNCHANGED <<queue, nEnq>>
    /\ UNCHANGED <<worker, store, ttl, tpc, pass, chan, nPasses,
                   recvd, lost, orphaned, store0, touched, atSend, execStore>>
    /\ UNCHANGED lifeVars

inc(h, v) ==
    /\ h \in Constructed
    /\ SendMutation(IncJob(h, v))
    /\ IF Alive
       THEN /\ expect' = Incr(expect, IncJob(h, v))
            /\ sumDelta' = [sumDelta EXCEPT ![Cell(h)] = @ + v]
       ELSE UNCHANGED <<expect, sumDelta>>
    /\ UNCHANGED hasSet

dec(h, v) ==
    /\ h \in Constructed
    /\ SendMutation(DecJob(h, v))
    /\ IF Alive
       THEN /\ expect' = Incr(expect, DecJob(h, v))
            /\ sumDelta' = [sumDelta EXCEPT ![Cell(h)] = @ - v]
       ELSE UNCHANGED <<expect, sumDelta>>
    /\ UNCHANGED hasSet

set(h, v) ==
    /\ h \in Constructed
    /\ SendMutation(SetJob(h, v))
    /\ IF Alive
       THEN /\ expect' = SetCell(expect, SetJob(h, v))
            /\ hasSet' = hasSet \cup {Cell(h)}
       ELSE UNCHANGED <<expect, hasSet>>
    /\ UNCHANGED sumDelta

\* ---------------------------------------------------- _generate_samples

\* Up to send_tx.send(..).unwrap(): the collectors are walked, the pipeline
\* and the placeholders are built, the result channel is made and the Get job
\* is sent.  The pass remembers (history) what the sent mutations amount to.
\* REDIS_JOB_TX.get().unwrap() panics while the sender is unset.
GenerateSamples(t, registry) ==
    /\ tpc[t] = "idle"
    /\ \A i \in 1..Len(registry) : \A j \in 1..Len(registry[i]) :
          registry[i][j] \in Constructed
    /\ nPasses < MaxPasses
    /\ nCalls + nPasses < MaxJobs
    /\ nPasses' = nPasses + 1
    /\ (jobTx # None /\ Alive) => CanSend(queue)
    /\ IF jobTx # None /\ Alive
       THEN /\ queue' = Enqueue(queue, GetJob(BuildPipe(registry), t), nEnq + 1)
            /\ nEnq' = nEnq + 1
            /\ chan' = [chan EXCEPT ![t] = [msgs |-> <<>>, tx |-> TRUE]]
            /\ tpc' = [tpc EXCEPT ![t] = "recv"]
            /\ pass' = [pass EXCEPT ![t] =
                            [registry |-> registry, status |-> "none",
                             samples_vec |-> Placeholders(registry)]]
            /\ atSend' = [atSend EXCEPT ![t] = expect]
       ELSE /\ pass' = [pass EXCEPT ![t] = FailedPass]
            /\ chan' = [chan EXCEPT ![t] = NoChan]
            /\ atSend' = [atSend EXCEPT ![t] = EmptyFn]
            /\ UNCHANGED <<queue, nEnq, tpc>>
    /\ execStore' = [execStore EXCEPT ![t] = EmptyFn]
    /\ UNCHANGED <<worker, store, ttl, nCalls, recvd, lost,
                   orphaned, raised, store0, expect, sumDelta, hasSet, touched>>
    /\ UNCHANGED lifeVars

\* rx.recv().unwrap() and the zip: a delivered vector is distributed over the
\* placeholders and the mapping is returned; a channel left without sender
\* and without message makes recv fail and the call panic.
GenerateSamplesRecv(t) ==
    /\ tpc[t] = "recv"
    /\ \/ /\ chan[t].msgs # <<>>
          /\ pass' = [pass EXCEPT ![t].status = "ok",
                                  ![t].samples_vec =
                                      Distribute(@, Head(chan[t].msgs).values)]
       \/ /\ chan[t].msgs = <<>>
          /\ ~chan[t].tx
          /\ pass' = [pass EXCEPT ![t] = FailedPass]
    /\ chan' = [chan EXCEPT ![t] = NoChan]
    /\ tpc' = [tpc EXCEPT ![t] = "idle"]
    /\ UNCHANGED <<queue, worker, store, ttl, nCalls, nPasses, nEnq,
                   recvd, lost, orphaned, raised, store0, expect, sumDelta,
                   hasSet, touched, atSend, execStore>>
    /\ UNCHANGED lifeVars

\* ------------------------------------------------------------ the worker

\* A failed unwrap: the thread panics and unwinds.  `received` and the
\* receiver are dropped, and with the receiver every job still in the channel.
\* The panic message names the failed call; the jobs behind it vanish.
Panic(entry, rest) ==
    /\ worker' = "dead"
    /\ queue' = <<>>
    /\ chan' = DropJobs(chan, <<entry>> \o rest)
    /\ lost' = lost \cup MutationSeqs(rest)
    /\ orphaned' = orphaned \cup ResultThreads(<<entry>> \o rest)

\* while let Ok(received) = rx.recv(): the worker takes the next job.  The
\* static REDIS_JOB_TX keeps a sender, so recv never fails.
Received(entry, rest) ==
    /\ worker = "running"
    /\ queue # <<>>
    /\ entry = queue[RecvIndex(queue)]
    /\ rest = Without(queue, RecvIndex(queue))
    /\ recvd' = Append(recvd, entry.seq)

\* The Inc | Dec arm: hincr or incr, then expire, each unwrapped.  Either
\* command may fail; a command that fails has changed nothing.
WorkerIncDec ==
    \E entry \in Entries(queue), rest \in {Without(queue, RecvIndex(queue))} :
        /\ Received(entry, rest)
        /\ Arm(entry.job) = "incdec"
        /\ LET job == entry.job
               st1 == Incr(store, job)
           IN  \/ /\ store' = Applied(store, ttl, job).store
                  /\ ttl' = Applied(store, ttl, job).ttl
                  /\ touched' = touched \cup {job.key_name}
                  /\ queue' = rest
                  /\ UNCHANGED <<worker, chan, lost, orphaned>>
               \/ /\ UNCHANGED <<store, ttl, touched>>
                  /\ Panic(entry, rest)
               \/ /\ store' = st1
                  /\ UNCHANGED <<ttl, touched>>
                  /\ Panic(entry, rest)
        /\ UNCHANGED <<tpc, pass, nCalls, nPasses, nEnq, raised, store0,
                       expect, sumDelta, hasSet, atSend, execStore>>
        /\ UNCHANGED lifeVars

\* The Set arm: hset or set, then expire, each unwrapped.
WorkerSet ==
    \E entry \in Entries(queue), rest \in {Without(queue, RecvIndex(queue))} :
        /\ Received(entry, rest)
        /\ Arm(entry.job) = "set"
        /\ LET job == entry.job
               st1 == SetCell(store, job)
               tl1 == SetTtl(ttl, job)
           IN  \/ /\ store' = Applied(store, ttl, job).store
                  /\ ttl' = Applied(store, ttl, job).ttl
                  /\ touched' = touched \cup {job.key_name}
                  /\ queue' = rest
                  /\ UNCHANGED <<worker, chan, lost, orphaned>>
               \/ /\ UNCHANGED <<store, ttl, touched>>
                  /\ Panic(entry, rest)
               \/ /\ store' = st1
                  /\ ttl' = tl1
                  /\ UNCHANGED touched
                  /\ Panic(entry, rest)
        /\ UNCHANGED <<tpc, pass, nCalls, nPasses, nEnq, raised, store0,
                       expect, sumDelta, hasSet, atSend, execStore>>
        /\ UNCHANGED lifeVars

\* The Get arm: pipe.query(..).unwrap(), the unwrap_or(0f64) map and
\* result_tx.send(..).unwrap().  When the query fails, Redis may have run any
\* prefix of the pipeline; an empty pipeline is answered without a round
\* trip and cannot fail.  The caller holds its receiver until it has
\* received, so the send succeeds; the job, and its result_tx, is dropped at
\* the end of the iteration.
WorkerGet ==
    \E entry \in Entries(queue), rest \in {Without(queue, RecvIndex(queue))} :
        /\ Received(entry, rest)
        /\ Arm(entry.job) = "get"
        /\ LET pipe == entry.job.pipeline[1]
               t == ResultTx(entry.job)
               values == UnwrapOr0(ExecPipe(pipe, store, ttl).replies)
           IN  \/ /\ ttl' = ExecPipe(pipe, store, ttl).ttl
                  /\ chan' = Deliver(chan, t, values)
                  /\ execStore' = [execStore EXCEPT ![t] = store]
                  /\ queue' = rest
                  /\ UNCHANGED <<worker, lost, orphaned>>
               \/ /\ pipe # <<>>
                  /\ \E n \in 0..Len(pipe) :
                         ttl' = ExecPipe(SubSeq(pipe, 1, n), store, ttl).ttl
                  /\ UNCHANGED execStore
                  /\ Panic(entry, rest)
        /\ UNCHANGED <<store, tpc, pass, nCalls, nPasses, nEnq, raised,
                       store0, expect, sumDelta, hasSet, touched, atSend>>
        /\ UNCHANGED lifeVars

\* ------------------------------------------------- _initialize and new

\* PyAny::get_item(config, "host")? and (.., "port")?: a missing key is a
\* KeyError returned to the caller, the host looked up first.
ConfigErrorHostOnly(config) ==
    IF config.host = None THEN Some("KeyError") ELSE None
ConfigError(config) ==
    IF config.host = None THEN Some("KeyError")
    ELSE IF config.port = None THEN Some("KeyError")
    ELSE None

\* create_redis_connection: Ok when the server at host:port accepts.
Connects(config) == config.host = Some("up")

\* REDIS_JOB_TX.get_or_init(|| Mutex::new(tx)): a OnceLock keeps the value of
\* its first initialisation; on a later call the closure, and the tx it
\* captured, is dropped unused.
GetOrInitReplace(cell, tx) == Some(tx)
GetOrInit(cell, tx) == IF cell = None THEN Some(tx) ELSE cell

\* The channels made so far: each _initialize that gets as far as
\* mpsc::channel() makes one and spawns one worker on its receiver.  Channel 1
\* is `queue`, with the worker `worker`; the later ones are in `spare`.
NChannels == IF worker = "none" THEN 0 ELSE 1 + Len(spare)

\* _initialize holds the GIL from entry to return: one step.  An error
\* returns before anything is opened or created.
Initialize(config) ==
    /\ nInits < MaxInits
    /\ nInits' = nInits + 1
    /\ IF ConfigError(config) # None
       THEN /\ lastInit' = [config |-> Some(config), result |-> ConfigError(config)[1]]
            /\ UNCHANGED <<jobTx, spare, conns, worker>>
       ELSE IF ~Connects(config)
       THEN /\ lastInit' = [config |-> Some(config), result |-> "Exception"]
            /\ UNCHANGED <<jobTx, spare, conns, worker>>
       ELSE /\ lastInit' = [config |-> Some(config), result |-> "ok"]
            /\ conns' = conns + 1
            /\ jobTx' = GetOrInit(jobTx, NChannels + 1)
            /\ IF worker = "none"
               THEN /\ worker' = "running"
                    /\ UNCHANGED spare
               ELSE /\ spare' = Append(spare,
                                   [tx |-> jobTx' = Some(NChannels + 1),
                                    worker |-> "running"])
                    /\ UNCHANGED worker
    /\ UNCHANGED <<queue, store, ttl, tpc, pass, chan, nCalls, nPasses, nEnq,
                   recvd, lost, orphaned, raised, store0, expect, sumDelta,
                   hasSet, touched, atSend, execStore, handles>>

\* The worker of a later _initialize: its channel never had a sender outside
\* the dropped closure, so rx.recv() returns Err and the thread ends, its
\* connection unused.  While a sender exists it waits.
SpareWorker(i) ==
    /\ spare[i].worker = "running"
    /\ ~spare[i].tx
    /\ spare' = [spare EXCEPT ![i].worker = "exited"]
    /\ UNCHANGED <<queue, worker, store, ttl, tpc, pass, chan, nCalls, nPasses,
                   nEnq, recvd, lost, orphaned, raised, store0, expect, sumDelta,
                   hasSet, touched, atSend, execStore, jobTx, handles, conns,
                   nInits, lastInit>>

\* RedisBackend::new: REDIS_JOB_TX.get().unwrap() panics while the sender is
\* unset, and no handle is constructed; otherwise the handle gets a clone of
\* the sender and the key_name and labels_hash derived from the metric.
new(metric, order) ==
    /\ IF jobTx = None
       THEN UNCHANGED handles
       ELSE handles' = handles \cup
                {[metric |-> metric, h |-> NewHandle(metric, order), tx |-> jobTx[1]]}
    /\ UNCHANGED <<queue, worker, store, ttl, tpc, pass, chan, nCalls, nPasses,
                   nEnq, recvd, lost, orphaned, raised, store0, expect, sumDelta,
                   hasSet, touched, atSend, execStore, jobTx, spare, conns,
                   nInits, lastInit>>

\* ------------------------------------------------------------------ Next

Next ==
    \/ \E h \in Handles, v \in Values : inc(h, v)
    \/ \E h \in Handles, v \in Values : dec(h, v)
    \/ \E h \in Handles, v \in Values : set(h, v)
    \/ \E t \in Threads, registry \in Registries : GenerateSamples(t, registry)
    \/ \E t \in Threads : GenerateSamplesRecv(t)
    \/ WorkerIncDec
    \/ WorkerSet
    \/ WorkerGet

Spec == Init /\ [][Next]_vars

\* The behaviours, from an empty Redis, in which no store operation fails:
\* every unwrap of the worker's loop finds Ok, so the worker never panics.
\* The worker thread and the threads blocked in rx.recv() are scheduled: an
\* iteration the worker can make is made, a vector delivered is received.
NoFailure == worker' = "running"

WorkerStep == (WorkerIncDec \/ WorkerSet \/ WorkerGet) /\ NoFailure

NextFair ==
    \/ \E h \in Handles, v \in Values : inc(h, v)
    \/ \E h \in Handles, v \in Values : dec(h, v)
    \/ \E h \in Handles, v \in Values : set(h, v)
    \/ \E t \in Threads, registry \in Registries : GenerateSamples(t, registry)
    \/ \E t \in Threads : GenerateSamplesRecv(t)
    \/ WorkerStep

InitFair == Init /\ store = EmptyFn

SpecFair ==
    /\ InitFair
    /\ [][NextFair]_vars
    /\ WF_vars(WorkerStep)
    /\ \A t \in Threads : WF_vars(GenerateSamplesRecv(t))

\* From process start: nothing is initialised, no handle exists.  Any
\* number of _initialize calls, then handles, inc calls and snapshot passes.
InitLife ==
    /\ jobTx = None
    /\ handles = {}
    /\ spare = <<>>
    /\ conns = 0
    /\ nInits = 0
    /\ lastInit = NoInit
    /\ store = EmptyFn
    /\ store0 = store
    /\ expect = store
    /\ ttl = EmptyFn
    /\ queue = <<>>
    /\ worker = "none"
    /\ tpc = [t \in Threads |-> "idle"]
    /\ pass = [t \in Threads |-> NoPass]
    /\ chan = [t \in Threads |-> NoChan]
    /\ nCalls = 0
    /\ nPasses = 0
    /\ nEnq = 0
    /\ recvd = <<>>
    /\ lost = {}
    /\ orphaned = {}
    /\ raised = FALSE
    /\ sumDelta = [c \in Cells |-> 0]
    /\ hasSet = {}
    /\ touched = {}
    /\ atSend = [t \in Threads |-> EmptyFn]
    /\ execStore = [t \in Threads |-> EmptyFn]

NextLife ==
    \/ \E config \in Configs : Initialize(config)
    \/ \E i \in 1..Len(spare) : SpareWorker(i)
    \/ \E metric \in HandleMetrics :
          \E order \in Orders(MergedNames(metric)) : new(metric, order)
    \/ \E h \in Handles, v \in Values : inc(h, v)
    \/ \E t \in Threads, registry \in Registries : GenerateSamples(t, registry)
    \/ \E t \in Threads : GenerateSamplesRecv(t)
    \/ WorkerIncDec
    \/ WorkerGet

SpecLife == InitLife /\ [][NextLife]_vars

\* RedisBackend::new applied to metrics drawn from bounded sets: default
\* labels named x and y, instance labels named y and z, any iteration order.
Dicts(names, values) == UNION {[S -> values] : S \in SUBSET names}

NewMetrics ==
    {Metric("k2", labels, default_labels, None) :
        labels \in Dicts({"y", "z"}, {"a", "ab", "b"}),
        default_labels \in Dicts({"x", "y"}, {"b"})}
    \cup {Metric("k1", NoLabels, NoLabels, Some("0.1"))}

InitNew ==
    /\ jobTx = Some(1)
    /\ handles = {}
    /\ spare = <<>>
    /\ conns = 1
    /\ nInits = 1
    /\ lastInit = [config |-> Some(Config(Some("up"), Some(6379))), result |-> "ok"]
    /\ store = EmptyFn
    /\ store0 = store
    /\ expect = store
    /\ ttl = EmptyFn
    /\ queue = <<>>
    /\ worker = "running"
    /\ tpc = [t \in Threads |-> "idle"]
    /\ pass = [t \in Threads |-> NoPass]
    /\ chan = [t \in Threads |-> NoChan]
    /\ nCalls = 0
    /\ nPasses = 0
    /\ nEnq = 0
    /\ recvd = <<>>
    /\ lost = {}
    /\ orphaned = {}
    /\ raised = FALSE
    /\ sumDelta = [c \in Cells |-> 0]
    /\ hasSet = {}
    /\ touched = {}
    /\ atSend = [t \in Threads |-> EmptyFn]
    /\ execStore = [t \in Threads |-> EmptyFn]

NextNew ==
    \E metric \in NewMetrics :
        \E order \in Orders(MergedNames(metric)) :
            /\ Cardinality(handles) < MaxNew
            /\ new(metric, order)

SpecNew == InitNew /\ [][NextNew]_vars

\* A snapshot pass's second half applied to whatever vector its result
\* channel holds: the inputs of the zip are drawn from bounded sets.
MaxVector == 3
RECURSIVE Vectors(_)
Vectors(n) ==
    IF n = 0 THEN {<<>>}
    ELSE Vectors(n - 1) \cup
         {Append(w, x) : w \in {u \in Vectors(n - 1) : Len(u) = n - 1}, x \in {8, 9}}

Receiving == [registry : Registries, values : Vectors(MaxVector)]

InitRecv ==
    /\ Initialized
    /\ \E f \in [Threads -> Receiving] :
          /\ pass = [t \in Threads |->
                        [registry |-> f[t].registry, status |-> "none",
                         samples_vec |-> Placeholders(f[t].registry)]]
          /\ chan = [t \in Threads |->
                        [msgs |-> <<[values |-> f[t].values]>>, tx |-> FALSE]]
    /\ tpc = [t \in Threads |-> "recv"]
    /\ store = EmptyFn
    /\ store0 = store
    /\ expect = store
    /\ ttl = EmptyFn
    /\ queue = <<>>
    /\ worker = "running"
    /\ nCalls = 0
    /\ nPasses = Cardinality(Threads)
    /\ nEnq = Cardinality(Threads)
    /\ recvd = [n \in 1..Cardinality(Threads) |-> n]
    /\ lost = {}
    /\ orphaned = {}
    /\ raised = FALSE
    /\ sumDelta = [c \in Cells |-> 0]
    /\ hasSet = {}
    /\ touched = {}
    /\ atSend = [t \in Threads |-> EmptyFn]
    /\ execStore = [t \in Threads |-> EmptyFn]

NextRecv == \E t \in Threads : GenerateSamplesRecv(t)

SpecRecv == InitRecv /\ [][NextRecv]_vars

\* ---------------------------------------------------------------- claims

Drained == worker = "running" /\ queue = <<>>

\* The places <<collector, sample>> of a registry or of a samples_vec.
Positions(samples_vec) ==
    UNION {{<<i, j>> : j \in 1..Len(samples_vec[i])} : i \in 1..Len(samples_vec)}

SameShape(a, b) ==
    /\ Len(a) = Len(b)
    /\ \A i \in 1..Len(a) : Len(a[i]) = Len(b[i])

Returned(t) == tpc[t] = "idle" /\ pass[t].status = "ok"

Reads(pipe) == {n \in 1..Len(pipe) : ~pipe[n].ignore}

\* C1: once the worker has drained the queue without a failure, a cell that
\* only inc and dec calls were sent for holds its initial value (0 when
\* absent) plus the sum of the deltas of all those calls.
C1_NoLostUpdate ==
    Drained =>
        \A c \in Cells \ hasSet : Val(store, c) = Val(store0, c) + sumDelta[c]

\* Three inc calls on one cell were all applied.
C1_Witness ==
    /\ Drained
    /\ nCalls = 3
    /\ sumDelta[<<"k2", <<"a">>>>] = 6
    /\ Val(store, <<"k2", <<"a">>>>) = Val(store0, <<"k2", <<"a">>>>) + 6

\* C2: the worker receives the jobs in the order they were sent, none
\* skipped: the k-th job it receives is the k-th job sent, and while it runs
\* the jobs still queued are the following ones, in order.
C2_QueueOrder ==
    /\ \A k \in 1..Len(recvd) : recvd[k] = k
    /\ worker = "running" =>
          /\ Len(recvd) + Len(queue) = nEnq
          /\ \A k \in 1..Len(queue) : queue[k].seq = Len(recvd) + k

\* Two jobs were received while a third, sent after them, waits.
C2_Witness ==
    /\ worker = "running"
    /\ Len(recvd) = 2
    /\ Len(queue) = 1

C4_Positional ==
    /\ \A k \in 1..Len(queue) :
          Arm(queue[k].job) = "get" =>
              LET t == queue[k].job.result_tx[1]
                  pipe == queue[k].job.pipeline[1]
              IN  /\ Cardinality(Reads(pipe)) = Total(pass[t].samples_vec)
                  /\ Len(pipe) = 2 * Total(pass[t].samples_vec)
    /\ \A t \in Threads :
          /\ \A n \in 1..Len(chan[t].msgs) :
                Len(chan[t].msgs[n].values) = Total(pass[t].samples_vec)
          /\ Returned(t) =>
                /\ SameShape(pass[t].samples_vec, pass[t].registry)
                /\ \A x \in Positions(pass[t].registry) :
                      pass[t].samples_vec[x[1]][x[2]] =
                          Val(execStore[t], Cell(pass[t].registry[x[1]][x[2]]))

\* A pass over three collectors with four samples returned three different
\* values, each at its sample's place.
C4_Witness ==
    \E t \in Threads :
        /\ Returned(t)
        /\ Len(pass[t].registry) = 3
        /\ Total(pass[t].samples_vec) = 4
        /\ pass[t].samples_vec[1][1] # pass[t].samples_vec[1][2]
        /\ pass[t].samples_vec[1][2] # pass[t].samples_vec[3][1]
        /\ pass[t].samples_vec[1][1] # pass[t].samples_vec[3][1]
        /\ pass[t].samples_vec[3][1] # 0

C6_NoSilentLoss == lost = {}

\* C7: a pass whose Get job was queued or in the worker's hands when the
\* worker panicked is not left blocked (its channel is empty and has lost its
\* sender, so its recv fails at once), and once it has ended it has ended
\* with an error.
C7_ReadFailurePropagates ==
    \A t \in orphaned :
        /\ tpc[t] = "recv" => chan[t].msgs = <<>> /\ ~chan[t].tx
        /\ tpc[t] = "idle" => pass[t].status = "error"

\* A pass whose job the panic dropped has ended with an error.
C7_Witness ==
    \E t \in orphaned : tpc[t] = "idle" /\ pass[t].status = "error"

\* C8: in every store state, for every handle and value, the worker leaves
\* the same store and expiry after the job of dec(v) as after the job of
\* inc(-v).
C8_DecIsIncNeg ==
    \A h \in Handles, v \in Values \cup {0 - w : w \in Values} :
        Applied(store, ttl, DecJob(h, v)) = Applied(store, ttl, IncJob(h, 0 - v))

\* The worker has applied a dec: a cell lies below its initial value.
C8_Witness ==
    /\ Drained
    /\ \E c \in Cells \ hasSet :
          /\ sumDelta[c] < 0
          /\ Val(store, c) = Val(store0, c) + sumDelta[c]

\* C9: while the worker runs, every key of a mutation job it has finished
\* has a time to live of EXPIRE_KEY_SECONDS.
C9_TtlRefreshed ==
    worker = "running" =>
        \A k \in touched : k \in DOMAIN ttl /\ ttl[k] = EXPIRE_KEY_SECONDS

\* A set on the unlabeled key and a mutation of the labeled key were applied.
C9_Witness ==
    /\ worker = "running"
    /\ touched = Keys
    /\ <<"k1", <<>>>> \in hasSet
    /\ \A k \in Keys : ttl[k] = EXPIRE_KEY_SECONDS

\* C10: a sample whose cell the store did not hold when the pipeline ran is
\* returned as 0, and every other sample, whatever its place, as the value
\* the store held for it.
C10_MissingIsZero ==
    \A t \in Threads :
        Returned(t) =>
            \A x \in Positions(pass[t].registry) :
                LET c == Cell(pass[t].registry[x[1]][x[2]]) IN
                /\ c \notin DOMAIN execStore[t] => pass[t].samples_vec[x[1]][x[2]] = 0
                /\ c \in DOMAIN execStore[t] =>
                      pass[t].samples_vec[x[1]][x[2]] = execStore[t][c]

\* Two samples of missing cells came back 0 ahead of a sample that holds a
\* value.
C10_Witness ==
    \E t \in Threads :
        /\ Returned(t)
        /\ Total(pass[t].samples_vec) = 4
        /\ DOMAIN execStore[t] = {<<"k2", <<"a">>>>}
        /\ pass[t].samples_vec[1] = <<0, 0>>
        /\ pass[t].samples_vec[3][1] = execStore[t][<<"k2", <<"a">>>>]
        /\ pass[t].samples_vec[3][1] # 0

\* The merged label mapping of a metric: its default labels overlaid by its
\* instance labels.
Merged(metric) ==
    [n \in MergedNames(metric) |->
        IF n \in DOMAIN metric.labels THEN metric.labels[n]
        ELSE metric.default_labels[n]]

\* The arrangements of the values of a mapping, one value per label name.
Arrangements(m) == {MapValues(m, order) : order \in Orders(DOMAIN m)}

Ascending(strs) == \A i \in 1..(Len(strs) - 1) : StrLeq(strs[i], strs[i + 1])

\* Two mappings hold the same values, each as many times.
SameValues(m1, m2) ==
    \A v \in {m1[n] : n \in DOMAIN m1} \cup {m2[n] : n \in DOMAIN m2} :
        Cardinality({n \in DOMAIN m1 : m1[n] = v}) =
            Cardinality({n \in DOMAIN m2 : m2[n] = v})

\* C11: the labels_hash of a handle is absent when its metric has neither
\* default nor instance labels, and otherwise the values of the merged
\* mapping in ascending order joined with "-"; two handles whose merged
\* mappings hold the same values have the same labels_hash, whatever the
\* label names and the order in which the map yields them.
C11_LabelsHash ==
    /\ \A r \in handles :
          IF MergedNames(r.metric) = {}
          THEN r.h.labels_hash = None
          ELSE \E strs \in Arrangements(Merged(r.metric)) :
                  /\ Ascending(strs)
                  /\ r.h.labels_hash = Some(Join(strs, "-"))
    /\ \A r1, r2 \in handles :
          SameValues(Merged(r1.metric), Merged(r2.metric))
              => r1.h.labels_hash = r2.h.labels_hash

\* Two handles of different metrics with three labels each, one default
\* value replaced by the instance's, both hashed to "a-ab-b".
C11_Witness ==
    \E r1, r2 \in handles :
        /\ r1.metric # r2.metric
        /\ DOMAIN r1.metric.default_labels = {"x", "y"}
        /\ r1.h.labels_hash = Some("a-ab-b")
        /\ r2.h.labels_hash = Some("a-ab-b")

\* The step is one iteration of the worker's loop on a mutation job.
MutationStep == Len(recvd') = Len(recvd) + 1 /\ IsMutation(Head(queue).job)

\* C12: an iteration of the worker on a mutation job for (key_name,
\* labels_hash), whether or not it fails, leaves every other field of the
\* key and every other key as it was, values and time to live, and creates
\* no cell but the job's own.
C12_DistinctFields ==
    [][MutationStep =>
          LET job == Head(queue).job
              c == <<job.key_name, job.labels_hash>>
          IN  /\ DOMAIN store' \subseteq DOMAIN store \cup {c}
              /\ \A x \in DOMAIN store \ {c} : x \in DOMAIN store' /\ store'[x] = store[x]
              /\ \A k \in Keys \ {job.key_name} :
                    /\ k \in DOMAIN ttl' <=> k \in DOMAIN ttl
                    /\ k \in DOMAIN ttl => ttl'[k] = ttl[k]]_vars

\* One inc on each of the two labeled handles of "k2", from an empty store:
\* a snapshot pass resolves both to the value of their own inc.
C12_Witness ==
    \E t \in Threads :
        /\ Returned(t)
        /\ store0 = EmptyFn
        /\ nCalls = 2
        /\ sumDelta[<<"k2", <<"a">>>>] = 2
        /\ sumDelta[<<"k2", <<"b">>>>] = 2
        /\ Total(pass[t].samples_vec) = 4
        /\ pass[t].samples_vec[1][1] = 2
        /\ pass[t].samples_vec[3][1] = 2

\* C13: REDIS_JOB_TX, once set, is never assigned again; it feeds channel 1,
\* and so does the sender of every handle; a job is only ever sent while
\* it is set; no later channel keeps a sender, so no later worker can
\* receive a job; and the store changes only in a step in which the worker
\* of channel 1 has received a job.
C13_SingleCoordinator ==
    /\ [](/\ jobTx \in {None, Some(1)}
          /\ \A r \in handles : jobTx = Some(r.tx)
          /\ \A i \in 1..Len(spare) : ~spare[i].tx
          /\ queue # <<>> => jobTx # None)
    /\ [][/\ jobTx # None => jobTx' = jobTx
          /\ nEnq' # nEnq => jobTx # None /\ queue' # queue
          /\ (store' # store \/ ttl' # ttl) =>
                worker = "running" /\ Len(recvd') = Len(recvd) + 1]_vars

\* Two _initialize calls succeeded: the second one's worker has ended, and
\* the first one's has applied the inc of a handle.
C13_Witness ==
    /\ nInits = 2
    /\ conns = 2
    /\ Len(spare) = 1
    /\ spare[1].worker = "exited"
    /\ jobTx = Some(1)
    /\ handles # {}
    /\ Len(recvd) = 1
    /\ store # EmptyFn

\* C14: an _initialize call whose config lacks host or port, or whose host
\* does not accept the connection, returns an error and leaves the sender,
\* the connections, the channels and the workers as they were.
C14_InitializeFails ==
    [][nInits' = nInits + 1 =>
          LET config == lastInit'.config[1]
          IN  (config.host = None \/ config.port = None \/ config.host = Some("down"))
                  => /\ lastInit'.result \in {"KeyError", "Exception"}
                     /\ jobTx' = jobTx
                     /\ conns' = conns
                     /\ spare' = spare
                     /\ worker' = worker
                     /\ queue' = queue]_vars

\* After one successful call, a call without port returned KeyError and a
\* call before any success left the sender unset.
C14_Witness ==
    /\ nInits = 2
    /\ lastInit.config = Some(Config(Some("up"), None))
    /\ lastInit.result = "KeyError"
    /\ jobTx = Some(1)
    /\ conns = 1
    /\ spare = <<>>

\* The step is a call of inc, dec or set.
MutationCall == nCalls' = nCalls + 1

\* C15: while the worker is alive, inc, dec and set can each be called on
\* every handle for every value, whatever the queue holds and whatever the
\* worker has done (up to the number of calls the model makes); and such a
\* call appends one mutation job without result channel and without
\* pipeline to the queue and returns with the job still queued, the store
\* and the worker's progress as they were.
C15_FireAndForget ==
    /\ []((Alive /\ nCalls < MaxCalls /\ nCalls + nPasses < MaxJobs) =>
             \A h \in Handles, v \in Values :
                 /\ ENABLED inc(h, v)
                 /\ ENABLED dec(h, v)
                 /\ ENABLED set(h, v))
    /\ [][(MutationCall /\ Alive) =>
             /\ Len(queue') = Len(queue) + 1
             /\ SubSeq(queue', 1, Len(queue)) = queue
             /\ IsMutation(queue'[Len(queue')].job)
             /\ queue'[Len(queue')].job.result_tx = None
             /\ queue'[Len(queue')].job.pipeline = None
             /\ store' = store /\ ttl' = ttl /\ recvd' = recvd
             /\ tpc' = tpc /\ chan' = chan]_vars

\* Three calls have returned and none of their jobs was received yet.
C15_Witness ==
    /\ Alive
    /\ nCalls = 3
    /\ Len(queue) = 3
    /\ recvd = <<>>
    /\ store = store0
    /\ \A k \in 1..3 : IsMutation(queue[k].job)

\* The step is thread t's _generate_samples up to its send, or the rest of it.
PassSends(t) == tpc[t] = "idle" /\ tpc'[t] = "recv"
PassEnds(t) == tpc[t] = "recv" /\ tpc'[t] = "idle"

\* C16: a pass appends one job to the queue, a Get job whose result channel
\* is the one made for the pass, empty and with its one sender in the job,
\* and whose pipeline holds, for the n-th sample in collector-then-sample
\* order, the read of the sample's cell at 2n-1 and the expiry of its key at
\* 2n, and nothing else; the rest of the pass, and a pass that fails at its
\* send, append nothing.
C16_OneBatchRead ==
    [][\A t \in Threads :
          /\ PassSends(t) =>
                LET registry == pass'[t].registry
                    job == queue'[Len(queue')].job
                IN  /\ Len(queue') = Len(queue) + 1
                    /\ SubSeq(queue', 1, Len(queue)) = queue
                    /\ job.action = "Get"
                    /\ job.result_tx = Some(t)
                    /\ chan'[t] = [msgs |-> <<>>, tx |-> TRUE]
                    /\ Len(job.pipeline[1]) = 2 * Total(registry)
                    /\ \A x \in Positions(registry) :
                          LET n == Flat(registry, x[1], x[2])
                              h == registry[x[1]][x[2]]
                              read == job.pipeline[1][2 * n - 1]
                              expire == job.pipeline[1][2 * n]
                          IN  /\ read.cmd \in {"GET", "HGET"}
                              /\ <<read.key, read.field>> = Cell(h)
                              /\ expire.cmd = "EXPIRE"
                              /\ expire.key = h.key_name
          /\ PassEnds(t) => queue' = queue
          /\ (nPasses' = nPasses + 1 /\ ~PassSends(t)) =>
                \/ queue' = queue
                \/ \E u \in Threads \ {t} : PassSends(u)]_vars

\* Two passes have each sent their one job: one over no collector at all,
\* with an empty pipeline, and one over three collectors with four samples.
C16_Witness ==
    /\ Len(queue) = 2
    /\ nPasses = 2
    /\ queue[1].job.pipeline = Some(<<>>)
    /\ queue[2].job.action = "Get"
    /\ Len(queue[2].job.pipeline[1]) = 8

\* C17 (as claimed): every job sent is still queued or was received by the
\* worker, once; and a pass whose Get job the worker has taken has exactly
\* one result vector on its channel until it receives it.
C17_ConsumedOnce ==
    /\ nEnq = Len(recvd) + Len(queue)
    /\ \A i, j \in 1..Len(recvd) : i # j => recvd[i] # recvd[j]
    /\ \A t \in Threads :
          (tpc[t] = "recv" /\ \A k \in 1..Len(queue) : queue[k].job.result_tx # Some(t))
              => Len(chan[t].msgs) = 1

\* C18: when no store operation fails and the worker and the waiting
\* threads are scheduled, a pass that has sent its Get job receives its
\* vector and returns, whatever is queued before or after its job.
C18_ReadsReturn ==
    \A t \in Threads : (tpc[t] = "recv") ~> Returned(t)

\* A pass waits with a mutation job and the other thread's Get job queued
\* ahead of its own.
C18_Witness ==
    \E t \in Threads :
        /\ worker = "running"
        /\ tpc[t] = "recv"
        /\ Len(queue) = 3
        /\ IsMutation(queue[1].job)
        /\ queue[2].job.action = "Get"
        /\ queue[3].job.result_tx = Some(t)

\* The value the n-th sample of thread t's pass has in store st.
SampleVal(t, x, st) == Val(st, Cell(pass[t].registry[x[1]][x[2]]))

\* The step is one iteration of the worker's loop on a Get job.
GetStep == Len(recvd') = Len(recvd) + 1 /\ Head(queue).job.action = "Get"

\* C19: a result channel holds at most one vector, only while its own pass
\* waits and only after its own job has left the queue, with one value per
\* sample of that pass; the worker's iteration on a Get job puts nothing on
\* the channel of any other pass, and the vector it sends holds, sample by
\* sample of the job's own pass, the values of the store at that step.
C19_Isolation ==
    /\ [](\A t \in Threads :
             /\ Len(chan[t].msgs) <= 1
             /\ chan[t].msgs # <<>> =>
                   /\ tpc[t] = "recv"
                   /\ \A k \in 1..Len(queue) : queue[k].job.result_tx # Some(t)
                   /\ Len(chan[t].msgs[1].values) = Total(pass[t].samples_vec))
    /\ [][GetStep =>
             LET t == Head(queue).job.result_tx[1]
             IN  /\ \A u \in Threads \ {t} : chan'[u].msgs = chan[u].msgs
                 /\ chan'[t].msgs # <<>> =>
                       \A x \in Positions(pass[t].registry) :
                           chan'[t].msgs[1].values[Flat(pass[t].registry, x[1], x[2])]
                               = SampleVal(t, x, store)]_vars

\* Two passes over the same four samples wait at the same time, each with
\* its own vector on its own channel; the vectors differ, a mutation having
\* been applied between the two jobs.
C19_Witness ==
    /\ \A t \in Threads :
          /\ tpc[t] = "recv"
          /\ Len(chan[t].msgs) = 1
          /\ Len(chan[t].msgs[1].values) = 4
    /\ chan["t1"].msgs[1].values # chan["t2"].msgs[1].values

\* The keys named by the samples of a registry, and how many samples name k.
SampleKeys(registry) ==
    {registry[x[1]][x[2]].key_name : x \in Positions(registry)}
SamplesOf(registry, k) ==
    Cardinality({x \in Positions(registry) : registry[x[1]][x[2]].key_name = k})
Expires(pipe, k) ==
    Cardinality({n \in 1..Len(pipe) : pipe[n].cmd = "EXPIRE" /\ pipe[n].key = k})

\* C20: the worker's iteration on a Get job leaves the store as it was, no
\* value changed and no key created; when it succeeds, every existing key
\* named by a sample of the pass has a time to live of EXPIRE_KEY_SECONDS
\* and every other key the time to live it had, and when it fails no key has
\* any other change; and the pipeline of a pass holds as many EXPIRE
\* commands for a key as the pass has samples that name it.
C20_ReadOnlyButTtl ==
    /\ [](\A n \in 1..Len(queue) :
             queue[n].job.action = "Get" =>
                 \A k \in Keys :
                     Expires(queue[n].job.pipeline[1], k) =
                         SamplesOf(pass[queue[n].job.result_tx[1]].registry, k))
    /\ [][GetStep =>
             LET t == Head(queue).job.result_tx[1]
                 hit == {k \in SampleKeys(pass[t].registry) : KeyExists(store, k)}
             IN  /\ store' = store
                 /\ DOMAIN ttl' \subseteq DOMAIN ttl \cup hit
                 /\ \A k \in DOMAIN ttl \ hit : k \in DOMAIN ttl' /\ ttl'[k] = ttl[k]
                 /\ \A k \in hit :
                       IF worker' = "running"
                       THEN k \in DOMAIN ttl' /\ ttl'[k] = EXPIRE_KEY_SECONDS
                       ELSE \/ k \in DOMAIN ttl' /\ ttl'[k] = EXPIRE_KEY_SECONDS
                            \/ k \in DOMAIN ttl /\ k \in DOMAIN ttl' /\ ttl'[k] = ttl[k]
                            \/ k \notin DOMAIN ttl /\ k \notin DOMAIN ttl']_vars

\* With no mutation ever sent, a pass over samples of "k1", of an existing
\* and of a missing field of "k2" has run: the store is as at start and both
\* keys now expire.
C20_Witness ==
    \E t \in Threads :
        /\ Returned(t)
        /\ nCalls = 0
        /\ Total(pass[t].samples_vec) = 4
        /\ store = store0
        /\ DOMAIN store = {<<"k1", <<>>>>, <<"k2", <<"b">>>>}
        /\ DOMAIN ttl = {"k1", "k2"}
        /\ \A k \in Keys : ttl[k] = EXPIRE_KEY_SECONDS

====
